---- MODULE Spec2Model ----
(***************************************************************************)
(* Model of final_playlist_refiner.py: the Pick-5 final playlist refiner.  *)
(*                                                                         *)
(* A text is a sequence of one-character strings.  A straight is a         *)
(* sequence of five digit characters, a box the ascending tuple of its     *)
(* five digit values.  One run of the script after "Build Final Play List" *)
(* is pressed is modelled block by block, pc naming the block to run next. *)
(***************************************************************************)
EXTENDS Integers, Sequences, FiniteSets

VARIABLES
    straights_text,  \* text area (1)
    winners_file,    \* the winners upload widget: NoFile, BrokenFile or File(bytes)
    winners_text,    \* pasted winners text
    exclude_file,    \* the exclude upload widget
    exclude_text,    \* pasted exclude text
    keep_unique,     \* the dedupe checkbox
    pc,              \* the block of the script to run next
    A,               \* parsed straights
    winners_raw,     \* the text the winners were parsed from
    winners_boxes,
    exclude_raw,
    exclude_boxes,
    kept_winners,
    kept_final,
    shown,           \* the messages rendered so far, in order
    stats,           \* the four counters of the st.success line
    assigned         \* the names of the script's locals bound so far

vars == <<straights_text, winners_file, winners_text, exclude_file, exclude_text,
          keep_unique, pc, A, winners_raw, winners_boxes, exclude_raw,
          exclude_boxes, kept_winners, kept_final, shown, stats, assigned>>

inputs == <<straights_text, winners_file, winners_text, exclude_file, exclude_text,
            keep_unique>>

\* ---------------------------------------------------------------- bounds

\* Most entries in a straights text of Spec.
MaxStraights == 3

\* Longest text of ExtractSpec.
MaxTextLen == 11

\* ------------------------------------------------------------ characters

\* The number of capture groups of FIVE_DIGIT_RE.
StraightLen == 5

DigitChars == {"0", "1", "2", "3", "4", "5", "6", "7", "8", "9"}

\* int(c) for a digit character c.
DigitValue(c) ==
    CASE c = "0" -> 0 [] c = "1" -> 1 [] c = "2" -> 2 [] c = "3" -> 3
      [] c = "4" -> 4 [] c = "5" -> 5 [] c = "6" -> 6 [] c = "7" -> 7
      [] c = "8" -> 8 [] c = "9" -> 9

\* The characters str.strip() removes, among those the model uses.
Whitespace == {" ", "\n"}

\* The values of an upload widget: None, an upload whose read() raises, and
\* an upload with its bytes.
NoFile == [kind |-> "none", bytes |-> <<>>]
BrokenFile == [kind |-> "broken", bytes |-> <<>>]
File(bytes) == [kind |-> "file", bytes |-> bytes]

\* ------------------------------------------------------- parsing helpers

IsDigit(c) == c \in DigitChars

Range(s) == {s[i] : i \in 1..Len(s)}

\* text.strip()
RECURSIVE LStrip(_)
LStrip(text) ==
    IF text # <<>> /\ Head(text) \in Whitespace THEN LStrip(Tail(text)) ELSE text

RECURSIVE RStrip(_)
RStrip(text) ==
    IF text # <<>> /\ text[Len(text)] \in Whitespace
    THEN RStrip(SubSeq(text, 1, Len(text) - 1))
    ELSE text

Strip(text) == RStrip(LStrip(text))

NoMatch == [ok |-> FALSE, groups |-> <<>>, end |-> 0]

\* One attempt of FIVE_DIGIT_RE at a start position: `groups' are the digits
\* captured so far and i the position the matcher stands at.  The first group
\* must match at the start position; before each later group the lazy
\* [^\d]*? takes non-digits only until a digit follows.
RECURSIVE MatchFrom(_, _, _)
MatchFrom(text, i, groups) ==
    IF Len(groups) = StraightLen THEN [ok |-> TRUE, groups |-> groups, end |-> i]
    ELSE IF i > Len(text) THEN NoMatch
    ELSE IF IsDigit(text[i]) THEN MatchFrom(text, i + 1, Append(groups, text[i]))
    ELSE IF groups = <<>> THEN NoMatch
    ELSE MatchFrom(text, i + 1, groups)

\* FindIter with the scan resumed one character after the start of a match
\* instead of at its end, so that matches overlap.
RECURSIVE FindIterOverlapping(_, _)
FindIterOverlapping(text, pos) ==
    IF pos > Len(text) THEN <<>>
    ELSE LET m == MatchFrom(text, pos, <<>>)
         IN  IF m.ok THEN <<m.groups>> \o FindIterOverlapping(text, pos + 1)
             ELSE FindIterOverlapping(text, pos + 1)

\* FIVE_DIGIT_RE.finditer(text) from position pos: the leftmost match, then
\* the scan resumes where that match ended.
RECURSIVE FindIter(_, _)
FindIter(text, pos) ==
    IF pos > Len(text) THEN <<>>
    ELSE LET m == MatchFrom(text, pos, <<>>)
         IN  IF m.ok THEN <<m.groups>> \o FindIter(text, m.end)
             ELSE FindIter(text, pos + 1)

parse_straights(text) ==
    LET t == Strip(text)
    IN  IF t = <<>> THEN <<>> ELSE FindIter(t, 1)

\* sorted(): insertion into an ascending sequence, element by element.
RECURSIVE Insert(_, _)
Insert(x, s) ==
    IF s = <<>> THEN <<x>>
    ELSE IF x <= Head(s) THEN <<x>> \o s
    ELSE <<Head(s)>> \o Insert(x, Tail(s))

RECURSIVE Sorted(_)
Sorted(s) == IF s = <<>> THEN <<>> ELSE Insert(Head(s), Sorted(Tail(s)))

\* Box without the sort: the digit values in the straight's own order.
BoxUnsorted(s) == [i \in 1..Len(s) |-> DigitValue(s[i])]

\* tuple(sorted(int(c) for c in s))
Box(s) == Sorted([i \in 1..Len(s) |-> DigitValue(s[i])])

parse_boxes_any(text) ==
    LET t == Strip(text)
    IN  IF t = <<>> THEN {} ELSE {Box(g) : g \in Range(FindIter(t, 1))}

\* ------------------------------------------------------------ uploads

\* What bytes.decode("utf-8", errors="ignore") gives for one byte, among the
\* bytes the model uses: an ASCII byte decodes to its character, and the lone
\* byte 255, which no UTF-8 sequence contains, is dropped.
InvalidByte == 255

ByteChar(b) ==
    CASE b = 10 -> "\n" [] b = 32 -> " " [] b = 44 -> "," [] b = 45 -> "-"
      [] b = 48 -> "0" [] b = 49 -> "1" [] b = 50 -> "2" [] b = 51 -> "3"
      [] b = 52 -> "4" [] b = 53 -> "5" [] b = 54 -> "6" [] b = 55 -> "7"
      [] b = 56 -> "8" [] b = 57 -> "9"

RECURSIVE Decode(_)
Decode(bytes) ==
    IF bytes = <<>> THEN <<>>
    ELSE IF Head(bytes) = InvalidByte THEN Decode(Tail(bytes))
    ELSE <<ByteChar(Head(bytes))>> \o Decode(Tail(bytes))

\* ------------------------------------------------------ filtering steps

\* int(c) succeeds for every character of s.
WellFormed(s) == \A i \in 1..Len(s) : IsDigit(s[i])

\* Step 1: the loop over A; a straight whose box cannot be computed is skipped.
RECURSIVE KeepLoop(_, _, _)
KeepLoop(rest, boxes, kept) ==
    IF rest = <<>> THEN kept
    ELSE LET s == Head(rest)
         IN  IF ~WellFormed(s) THEN KeepLoop(Tail(rest), boxes, kept)
             ELSE IF Box(s) \in boxes THEN KeepLoop(Tail(rest), boxes, Append(kept, s))
             ELSE KeepLoop(Tail(rest), boxes, kept)

\* KeepStep with each kept straight put at the front of the list.
RECURSIVE KeepLoopPrepending(_, _, _)
KeepLoopPrepending(rest, boxes, kept) ==
    IF rest = <<>> THEN kept
    ELSE LET s == Head(rest)
         IN  IF WellFormed(s) /\ Box(s) \in boxes
             THEN KeepLoopPrepending(Tail(rest), boxes, <<s>> \o kept)
             ELSE KeepLoopPrepending(Tail(rest), boxes, kept)

KeepStepPrepending(straights, boxes) == KeepLoopPrepending(straights, boxes, <<>>)

KeepStep(straights, boxes) == KeepLoop(straights, boxes, <<>>)

\* Step 2: the list comprehension, run only for a non-empty exclude set.
NotExcluded(kept, boxes) == SelectSeq(kept, LAMBDA s : Box(s) \notin boxes)

\* ExcludeStep with the membership test inverted.
ExcludeStepInverted(kept, boxes) ==
    IF boxes # {} THEN SelectSeq(kept, LAMBDA s : Box(s) \in boxes) ELSE kept

ExcludeStep(kept, boxes) == IF boxes # {} THEN NotExcluded(kept, boxes) ELSE kept

\* The dedupe loop with its `seen' set.
RECURSIVE DedupeLoop(_, _, _)
DedupeLoop(rest, seen, deduped) ==
    IF rest = <<>> THEN deduped
    ELSE LET s == Head(rest)
         IN  IF s \notin seen
             THEN DedupeLoop(Tail(rest), seen \cup {s}, Append(deduped, s))
             ELSE DedupeLoop(Tail(rest), seen, deduped)

\* Dedupe that drops a straight only when it repeats the one just before it.
RECURSIVE DedupeAdjacent(_)
DedupeAdjacent(kept) ==
    IF Len(kept) < 2 THEN kept
    ELSE IF kept[1] = kept[2] THEN DedupeAdjacent(Tail(kept))
    ELSE <<Head(kept)>> \o DedupeAdjacent(Tail(kept))

Dedupe(kept) == DedupeLoop(kept, {}, <<>>)

\* The counters of the st.success line, by the label each is printed under.
StatsLine(straights, boxes, kept_w, kept_f) ==
    [input_count |-> Len(straights),
     winners_count |-> Cardinality(boxes),
     kept_after_winners |-> Len(kept_w),
     kept_after_exclude |-> Len(kept_f)]

\* ------------------------------------------------------------ the script

\* The button is pressed: the script reruns past the `if not go' stop.
Go ==
    /\ pc = "idle"
    /\ pc' = "parse_straights"
    /\ shown' = <<>>
    /\ UNCHANGED <<inputs, A, winners_raw, winners_boxes, exclude_raw, exclude_boxes,
                   kept_winners, kept_final, stats, assigned>>

\* ParseStraights without the stop on an empty list.
ParseStraightsNoStop ==
    /\ pc = "parse_straights"
    /\ A' = parse_straights(straights_text)
    /\ assigned' = assigned \cup {"A"}
    /\ shown' = IF A' = <<>> THEN Append(shown, "error_no_straights") ELSE shown
    /\ pc' = "parse_winners"
    /\ UNCHANGED <<inputs, winners_raw, winners_boxes, exclude_raw, exclude_boxes,
                   kept_winners, kept_final, stats>>

ParseStraights ==
    /\ pc = "parse_straights"
    /\ A' = parse_straights(straights_text)
    /\ assigned' = assigned \cup {"A"}
    /\ IF A' = <<>>
       THEN /\ shown' = Append(shown, "error_no_straights")
            /\ pc' = "stopped"
       ELSE /\ shown' = shown
            /\ pc' = "parse_winners"
    /\ UNCHANGED <<inputs, winners_raw, winners_boxes, exclude_raw, exclude_boxes,
                   kept_winners, kept_final, stats>>

\* SourceText with the pasted text parsed after the upload's.
SourceTextMerged(file, text) ==
    IF file # NoFile THEN Decode(file.bytes) \o <<"\n">> \o text ELSE text

\* The text a source is parsed from: the upload's decoded bytes when a file
\* is present, the pasted text otherwise.
SourceText(file, text) == IF file # NoFile THEN Decode(file.bytes) ELSE text

\* ParseWinners without the stop on an empty box set.
ParseWinnersNoStop ==
    /\ pc = "parse_winners"
    /\ IF winners_file = BrokenFile
       THEN /\ shown' = Append(shown, "error_winners_read")
            /\ pc' = "stopped"
            /\ UNCHANGED <<winners_raw, winners_boxes, assigned>>
       ELSE /\ winners_raw' = SourceText(winners_file, winners_text)
            /\ assigned' = assigned \cup {"winners_raw", "winners_boxes"}
            /\ winners_boxes' = parse_boxes_any(winners_raw')
            /\ shown' = shown
            /\ pc' = "parse_exclude"
    /\ UNCHANGED <<inputs, A, exclude_raw, exclude_boxes, kept_winners, kept_final,
                   stats>>

ParseWinners ==
    /\ pc = "parse_winners"
    /\ IF winners_file = BrokenFile
       THEN /\ shown' = Append(shown, "error_winners_read")
            /\ pc' = "stopped"
            /\ UNCHANGED <<winners_raw, winners_boxes, assigned>>
       ELSE /\ winners_raw' = SourceText(winners_file, winners_text)
            /\ assigned' = assigned \cup {"winners_raw", "winners_boxes"}
            /\ winners_boxes' = parse_boxes_any(winners_raw')
            /\ IF winners_boxes' = {}
               THEN /\ shown' = Append(shown, "error_no_winners")
                    /\ pc' = "stopped"
               ELSE /\ shown' = shown
                    /\ pc' = "parse_exclude"
    /\ UNCHANGED <<inputs, A, exclude_raw, exclude_boxes, kept_winners, kept_final,
                   stats>>

ParseExclude ==
    /\ pc = "parse_exclude"
    /\ IF exclude_file = BrokenFile
       THEN /\ shown' = Append(shown, "error_exclude_read")
            /\ pc' = "stopped"
            /\ UNCHANGED <<exclude_raw, exclude_boxes, assigned>>
       ELSE /\ exclude_raw' = SourceText(exclude_file, exclude_text)
            /\ assigned' = assigned \cup {"exclude_raw", "exclude_boxes"}
            /\ exclude_boxes' = parse_boxes_any(exclude_raw')
            /\ shown' = shown
            /\ pc' = "keep"
    /\ UNCHANGED <<inputs, A, winners_raw, winners_boxes, kept_winners, kept_final,
                   stats>>

Keep ==
    /\ pc = "keep"
    /\ kept_winners' = KeepStep(A, winners_boxes)
    /\ assigned' = assigned \cup {"kept_winners"}
    /\ pc' = "exclude"
    /\ UNCHANGED <<inputs, A, winners_raw, winners_boxes, exclude_raw, exclude_boxes,
                   kept_final, shown, stats>>

Exclude ==
    /\ pc = "exclude"
    /\ kept_final' = ExcludeStep(kept_winners, exclude_boxes)
    /\ assigned' = assigned \cup {"kept_final"}
    /\ pc' = "dedupe"
    /\ UNCHANGED <<inputs, A, winners_raw, winners_boxes, exclude_raw, exclude_boxes,
                   kept_winners, shown, stats>>

DedupeIfAsked ==
    /\ pc = "dedupe"
    /\ kept_final' = IF keep_unique THEN Dedupe(kept_final) ELSE kept_final
    /\ pc' = "output"
    /\ UNCHANGED <<inputs, A, winners_raw, winners_boxes, exclude_raw, exclude_boxes,
                   kept_winners, shown, stats, assigned>>

\* Output with the warning decided on the list kept by the winners step.
OutputWarnsOnKeptWinners ==
    /\ pc = "output"
    /\ stats' = StatsLine(A, winners_boxes, kept_winners, kept_final)
    /\ shown' = shown \o <<"success">> \o
                    (IF kept_winners # <<>> THEN <<"code", "download">> ELSE <<"warning">>)
    /\ pc' = "done"
    /\ UNCHANGED <<inputs, A, winners_raw, winners_boxes, exclude_raw, exclude_boxes,
                   kept_winners, kept_final, assigned>>

Output ==
    /\ pc = "output"
    /\ stats' = StatsLine(A, winners_boxes, kept_winners, kept_final)
    /\ shown' = shown \o <<"success">> \o
                    (IF kept_final # <<>> THEN <<"code", "download">> ELSE <<"warning">>)
    /\ pc' = "done"
    /\ UNCHANGED <<inputs, A, winners_raw, winners_boxes, exclude_raw, exclude_boxes,
                   kept_winners, kept_final, assigned>>

Next ==
    \/ Go
    \/ ParseStraights
    \/ ParseWinners
    \/ ParseExclude
    \/ Keep
    \/ Exclude
    \/ DedupeIfAsked
    \/ Output

\* ---------------------------------------------------------------- inputs

\* The straights a straights text of Spec is made of: 08949, its permutation
\* 09489, and 70438.
Pool == {<<"0", "8", "9", "4", "9">>,
         <<"0", "9", "4", "8", "9">>,
         <<"7", "0", "4", "3", "8">>}

\* One entry per line.
RECURSIVE Lines(_)
Lines(entries) ==
    IF entries = <<>> THEN <<>> ELSE Head(entries) \o <<"\n">> \o Lines(Tail(entries))

Dashed(e) == <<e[1], "-", e[2], "-", e[3], "-", e[4], "-", e[5]>>

\* Dashed entries after a blank, comma separated, then a fragment too short
\* to be a straight and a line end.
RECURSIVE Csv(_)
Csv(entries) ==
    IF entries = <<>> THEN <<"1", "-", "2", "\n">>
    ELSE Dashed(Head(entries)) \o <<",", " ">> \o Csv(Tail(entries))

EntryLists == UNION {[1..n -> Pool] : n \in 0..MaxStraights}

StraightsTexts == {Lines(l) : l \in EntryLists} \cup {<<" ">> \o Csv(l) : l \in EntryLists}

NoText == <<>>
\* "9-8-9-4-0"
TextBoxA == <<"9", "-", "8", "-", "9", "-", "4", "-", "0">>
\* "70438\n08949 9-8-9-4-0": three entries, two boxes
TextTwoBoxes == <<"7", "0", "4", "3", "8", "\n", "0", "8", "9", "4", "9", " ", "9", "-", "8", "-", "9", "-", "4", "-", "0">>
\* " 1-2\n": no entry
TextNoEntry == <<" ", "1", "-", "2", "\n">>

\* The bytes of "0,4,3,7,8" with an undecodable byte inside.
BytesBoxC == <<48, 44, 52, 44, 51, 255, 44, 55, 44, 56>>
\* The bytes of "12" around an undecodable byte.
BytesNoEntry == <<49, 255, 50>>

WinnersTexts == {NoText, TextBoxA, TextTwoBoxes, TextNoEntry}
WinnersFiles == {NoFile, BrokenFile, File(BytesBoxC), File(BytesNoEntry)}
ExcludeTexts == {NoText, TextBoxA, TextNoEntry}
ExcludeFiles == {NoFile, BrokenFile, File(BytesBoxC)}

NoStats == [input_count |-> 0, winners_count |-> 0, kept_after_winners |-> 0,
            kept_after_exclude |-> 0]

\* The locals of a run that has not started, none of them bound.
Fresh ==
    /\ A = <<>>
    /\ winners_raw = <<>>
    /\ winners_boxes = {}
    /\ exclude_raw = <<>>
    /\ exclude_boxes = {}
    /\ kept_winners = <<>>
    /\ kept_final = <<>>
    /\ stats = NoStats
    /\ assigned = {}

\* The page with its widgets filled in and the button not pressed yet.
Init ==
    /\ straights_text \in StraightsTexts
    /\ winners_file \in WinnersFiles
    /\ winners_text \in WinnersTexts
    /\ exclude_file \in ExcludeFiles
    /\ exclude_text \in ExcludeTexts
    /\ keep_unique \in BOOLEAN
    /\ pc = "idle"
    /\ shown = <<"info">>
    /\ Fresh

Spec == Init /\ [][Next]_vars

\* ------------------------------------------------- the extractor alone

\* Every text of ExtractSpec is made of these: two digits and a blank.
ExtractAlphabet == {"0", "1", " "}

ExtractTexts == UNION {[1..n -> ExtractAlphabet] : n \in 0..MaxTextLen}

\* The run stands before the `Parse inputs' block, with any text in (1) and
\* nothing in the other widgets.
ExtractInit ==
    /\ straights_text \in ExtractTexts
    /\ winners_file = NoFile
    /\ winners_text = NoText
    /\ exclude_file = NoFile
    /\ exclude_text = NoText
    /\ keep_unique = FALSE
    /\ pc = "parse_straights"
    /\ shown = <<>>
    /\ Fresh

ExtractNext == ParseStraights

ExtractSpec == ExtractInit /\ [][ExtractNext]_vars

\* ---------------------------------------------- one straight, one entry

BoxDigits == {"0", "1", "2"}

BoxStraights == [1..StraightLen -> BoxDigits]

\* One straight s in (1) and one listed entry t: t is the winners list, or s
\* is and t is the exclude list.
BoxInit ==
    /\ \E s \in BoxStraights, t \in BoxStraights :
          /\ straights_text = s
          /\ \/ winners_text = t /\ exclude_text = NoText
             \/ winners_text = s /\ exclude_text = t
    /\ winners_file = NoFile
    /\ exclude_file = NoFile
    /\ keep_unique = FALSE
    /\ pc = "idle"
    /\ shown = <<"info">>
    /\ Fresh

BoxSpec == BoxInit /\ [][Next]_vars

\* ------------------------------------------------------------ properties

RECURSIVE IsSubseq(_, _)
IsSubseq(a, b) ==
    IF a = <<>> THEN TRUE
    ELSE IF b = <<>> THEN FALSE
    ELSE IF Head(a) = Head(b) THEN IsSubseq(Tail(a), Tail(b))
    ELSE IsSubseq(a, Tail(b))

Count(s, x) == Cardinality({i \in 1..Len(s) : s[i] = x})

DigitsOf(text) == SelectSeq(text, IsDigit)

\* The text holds no five digits.
NoEntryIn(text) == Len(DigitsOf(text)) < StraightLen

\* u and v are made of the same digits, each as many times.
SamePermutation(u, v) ==
    /\ Len(u) = Len(v)
    /\ \A c \in DigitChars : Count(u, c) = Count(v, c)

Ascending(b) == \A i \in 1..(Len(b) - 1) : b[i] <= b[i + 1]

\* b is the digits of s in ascending order.
IsBoxOf(b, s) ==
    /\ Len(b) = StraightLen
    /\ Ascending(b)
    /\ \A c \in DigitChars : Count(b, DigitValue(c)) = Count(s, c)

Bound(name) == name \in assigned

\* The list the exclude step produced, whatever the dedupe step did after it.
AfterExclude == ExcludeStep(kept_winners, exclude_boxes)

\* C1: the list kept by the winners step is a subsequence of the parsed
\* straights, and the final list, after the exclude step and after the dedupe
\* step, is a subsequence of the list kept by the winners step.
C1_ResultIsSubsequence ==
    /\ Bound("kept_winners") => IsSubseq(kept_winners, A)
    /\ Bound("kept_final") => IsSubseq(kept_final, kept_winners)

C1_Witness ==
    /\ pc = "done"
    /\ keep_unique
    /\ exclude_boxes # {}
    /\ kept_final # <<>>
    /\ Len(kept_final) < Len(kept_winners)
    /\ Len(kept_winners) < Len(A)

\* C2: with dedupe disabled the final list is the parsed straights whose box
\* is in the winners set and not in the exclude set, every occurrence, in
\* order; with an empty exclude set it is the list kept by the winners step;
\* 08949, 09489, 70438 with the one winner box (0,4,8,9,9) and no exclude give
\* 08949, 09489.
C2_KeepThenExclude ==
    (pc = "done" /\ ~keep_unique) =>
        /\ kept_final = SelectSeq(A, LAMBDA s : /\ Box(s) \in winners_boxes
                                                /\ Box(s) \notin exclude_boxes)
        /\ exclude_boxes = {} => kept_final = kept_winners
        /\ (/\ A = <<<<"0", "8", "9", "4", "9">>, <<"0", "9", "4", "8", "9">>,
                     <<"7", "0", "4", "3", "8">>>>
            /\ winners_boxes = {<<0, 4, 8, 9, 9>>}
            /\ exclude_boxes = {})
           => kept_final = <<<<"0", "8", "9", "4", "9">>, <<"0", "9", "4", "8", "9">>>>

C2_Witness ==
    /\ pc = "done"
    /\ ~keep_unique
    /\ Len(A) = 3
    /\ Len(kept_winners) = 3
    /\ Len(kept_final) = 2
    /\ kept_final[1] = kept_final[2]

\* C3: the four counters of a completed run are the number of parsed
\* straights, the number of distinct winner boxes, the length of the list
\* after the keep step and the length of the list the exclude step produced.
C3_Counters ==
    pc = "done" =>
        stats = [input_count |-> Len(A),
                 winners_count |-> Cardinality(winners_boxes),
                 kept_after_winners |-> Len(kept_winners),
                 kept_after_exclude |-> Len(AfterExclude)]

\* C4: a straights text without five digits ends the run with the
\* no-straights error and nothing else: no winners or exclude source is read
\* or parsed, no step runs, no stats are shown, whatever the winners input.
C4_NoStraightsStopsFirst ==
    /\ (pc \notin {"idle", "parse_straights"} /\ NoEntryIn(straights_text)) =>
          /\ pc = "stopped"
          /\ shown = <<"error_no_straights">>
          /\ assigned = {"A"}
          /\ A = <<>>
          /\ winners_raw = <<>> /\ winners_boxes = {}
          /\ exclude_raw = <<>> /\ exclude_boxes = {}
          /\ kept_winners = <<>> /\ kept_final = <<>>
          /\ stats = NoStats
    /\ "error_no_straights" \in Range(shown) => NoEntryIn(straights_text)

C4_Witness ==
    /\ pc = "stopped"
    /\ shown = <<"error_no_straights">>
    /\ straights_text # <<>>
    /\ winners_file = NoFile
    /\ winners_text = NoText

\* C5: with a straight parsed, a winners source that yields no box ends the
\* run with the no-winners error before the keep, exclude and dedupe steps
\* and the stats; a winners source that yields a box never ends it so,
\* whatever the exclude source holds.
C5_NoWinnersStops ==
    /\ (Bound("winners_boxes") /\ winners_boxes = {}) =>
          /\ A # <<>>
          /\ NoEntryIn(winners_raw)
          /\ pc = "stopped"
          /\ shown = <<"error_no_winners">>
          /\ assigned = {"A", "winners_raw", "winners_boxes"}
          /\ exclude_raw = <<>> /\ exclude_boxes = {}
          /\ kept_winners = <<>> /\ kept_final = <<>>
          /\ stats = NoStats
    /\ (Bound("winners_boxes") /\ winners_boxes # {}) =>
          /\ ~NoEntryIn(winners_raw)
          /\ "error_no_winners" \notin Range(shown)
    /\ "error_no_winners" \in Range(shown) =>
          Bound("winners_boxes") /\ winners_boxes = {}

C5_Witness ==
    /\ pc = "stopped"
    /\ shown = <<"error_no_winners">>
    /\ winners_raw # <<>>
    /\ exclude_text # NoText

\* The places of x's first occurrences in s.
FirstPlaces(s) == {i \in 1..Len(s) : \A k \in 1..(i - 1) : s[k] # s[i]}

\* C6: the dedupe step, when enabled, leaves exactly the first occurrence of
\* each string of the list it is given, in order, so that no two elements are
\* equal and a second application changes nothing; when disabled it leaves
\* the list as it is, duplicates included.
C6_DedupeKeepsFirst ==
    pc \in {"output", "done"} =>
        IF keep_unique
        THEN /\ Len(kept_final) = Cardinality(FirstPlaces(AfterExclude))
             /\ \A i \in FirstPlaces(AfterExclude) :
                   kept_final[Cardinality({k \in FirstPlaces(AfterExclude) : k <= i})]
                       = AfterExclude[i]
             /\ \A i, j \in 1..Len(kept_final) : i # j => kept_final[i] # kept_final[j]
             /\ Dedupe(kept_final) = kept_final
        ELSE kept_final = AfterExclude

C6_Witness ==
    /\ pc = "output"
    /\ keep_unique
    /\ Len(AfterExclude) = 3
    /\ AfterExclude[1] = AfterExclude[3]
    /\ AfterExclude[1] # AfterExclude[2]
    /\ Len(kept_final) = 2

\* C7: the extractor returns, in order, the successive blocks of five digits
\* of the text's digit subsequence, whatever lies between the digits: the
\* k-th straight is digits 5k-4..5k, five times the number of straights never
\* exceeds the digit count, and fewer than five digits give the empty list.
C7_ExtractorChunksDigits ==
    Bound("A") =>
        LET D == DigitsOf(straights_text)
        IN  /\ Len(A) * StraightLen <= Len(D)
            /\ Len(A) = Len(D) \div StraightLen
            /\ \A k \in 1..Len(A) :
                  A[k] = SubSeq(D, StraightLen * k - (StraightLen - 1), StraightLen * k)
            /\ Len(D) < StraightLen => A = <<>>

C7_Witness ==
    /\ Bound("A")
    /\ Len(A) = 2
    /\ A[1] # A[2]
    /\ Len(DigitsOf(straights_text)) < Len(straights_text)

\* C8: a box is the five digits of its entry in ascending order; the boxes of
\* two entries are equal exactly when one entry is a permutation of the
\* other; and the straight is kept exactly when it is a permutation of the
\* winners entry, and then excluded exactly when it is a permutation of the
\* exclude entry.
C8_BoxIsPermutationClass ==
    /\ Bound("winners_boxes") =>
          \E b \in winners_boxes : winners_boxes = {b} /\ IsBoxOf(b, winners_text)
    /\ Bound("exclude_boxes") =>
          IF exclude_text = NoText THEN exclude_boxes = {}
          ELSE /\ \E b \in exclude_boxes :
                     exclude_boxes = {b} /\ IsBoxOf(b, exclude_text)
               /\ (winners_boxes = exclude_boxes)
                     <=> SamePermutation(winners_text, exclude_text)
    /\ Bound("kept_winners") =>
          kept_winners = IF SamePermutation(straights_text, winners_text)
                         THEN <<straights_text>> ELSE <<>>
    /\ Bound("kept_final") =>
          kept_final = IF /\ SamePermutation(straights_text, winners_text)
                          /\ ~(/\ exclude_text # NoText
                               /\ SamePermutation(straights_text, exclude_text))
                       THEN <<straights_text>> ELSE <<>>

C8_Witness ==
    /\ pc = "done"
    /\ exclude_text # NoText
    /\ exclude_text # straights_text
    /\ kept_winners = <<straights_text>>
    /\ kept_final = <<>>

\* C9: a completed run shows the stats line and then either the list or the
\* "no straights remained" warning, the warning exactly when the final list
\* is empty; the warning is shown by completed runs only, never with one of
\* the errors.
C9_NothingRemained ==
    /\ pc = "done" =>
          /\ shown = IF kept_final = <<>> THEN <<"success", "warning">>
                     ELSE <<"success", "code", "download">>
          /\ stats.input_count = Len(A) /\ A # <<>>
          /\ winners_boxes # {}
    /\ "warning" \in Range(shown) => pc = "done"

C9_Witness ==
    /\ pc = "done"
    /\ kept_winners # <<>>
    /\ AfterExclude = <<>>
    /\ shown = <<"success", "warning">>

\* C10: for the winners and for the exclude source, the text parsed is the
\* decoded upload alone when a file is uploaded and the pasted text alone when
\* none is; an uploaded winners file without five digits ends the run with
\* the no-winners error whatever the pasted winners text holds, and an upload
\* that cannot be read is not replaced by the pasted text either.
C10_UploadReplacesPaste ==
    /\ Bound("winners_raw") =>
          /\ winners_raw = IF winners_file.kind = "file"
                           THEN Decode(winners_file.bytes) ELSE winners_text
          /\ winners_boxes = parse_boxes_any(winners_raw)
    /\ Bound("exclude_raw") =>
          /\ exclude_raw = IF exclude_file.kind = "file"
                           THEN Decode(exclude_file.bytes) ELSE exclude_text
          /\ exclude_boxes = parse_boxes_any(exclude_raw)
    /\ (/\ Bound("winners_raw")
        /\ winners_file.kind = "file"
        /\ NoEntryIn(Decode(winners_file.bytes)))
          => pc = "stopped" /\ shown = <<"error_no_winners">>
    /\ winners_file = BrokenFile => ~Bound("winners_raw")
    /\ exclude_file = BrokenFile => ~Bound("exclude_raw")

C10_Witness ==
    /\ pc = "stopped"
    /\ shown = <<"error_no_winners">>
    /\ winners_file.kind = "file"
    /\ ~NoEntryIn(winners_text)

====
